---- MODULE Spec2Model ----
(***************************************************************************)
(* Model of the document-to-blog-record uploader.                          *)
(*                                                                         *)
(*   src/script.py  StrapiDocUploader: parse_doc_file, upload_to_strapi,   *)
(*                  process_directory, _calculate_reading_time,            *)
(*                  _process_inline_formatting                             *)
(*   src/main.py    upload_docs (the /upload handler), verify_admin_token  *)
(*                                                                         *)
(* Text is a sequence of tokens.  A token is one character (" ", ",", "a", *)
(* "b", "\n") or one of the two literals the code searches for, "Blog" and *)
(* "Content Keywords:", or a markup tag.  The string operations of the     *)
(* code (strip, in, replace, split, escape, the \w+ scan) are computed on  *)
(* the tokens.  The footer label and the modification date of a record are *)
(* copied through by the code without any decision taken on them and are   *)
(* left out of the record.                                                 *)
(***************************************************************************)
EXTENDS Integers, Sequences, FiniteSets, TLC

\* ------------------------------------------------------------------ bounds
MaxParas == 3
MaxContent == 3
MaxKwLen == 5
MaxWords == 570
MaxFiles == 3

\* script.py line 48: words / 225
WordsPerMinute == 225

\* ------------------------------------------------------------------- text
KW == "Content Keywords:"
BLOG == "Blog"

IsSpace(c) == c \in {" ", "\n"}

\* str.strip()
Strip(t) ==
  IF \A j \in 1..Len(t) : IsSpace(t[j]) THEN <<>>
  ELSE LET lo == CHOOSE j \in 1..Len(t) :
                   ~IsSpace(t[j]) /\ \A k \in 1..(j-1) : IsSpace(t[k])
           hi == CHOOSE j \in 1..Len(t) :
                   ~IsSpace(t[j]) /\ \A k \in (j+1)..Len(t) : IsSpace(t[k])
       IN SubSeq(t, lo, hi)

\* needle in text, for the two literals the code searches for
Contains(t, tok) == \E j \in 1..Len(t) : t[j] = tok

\* text.replace(tok, "")
Replace(t, tok) == SelectSeq(t, LAMBDA c : c # tok)

\* text.split(',')
RECURSIVE SplitComma(_)
SplitComma(t) ==
  IF \A j \in 1..Len(t) : t[j] # "," THEN <<t>>
  ELSE LET c == CHOOSE j \in 1..Len(t) :
                  t[j] = "," /\ \A k \in 1..(j-1) : t[k] # ","
       IN <<SubSeq(t, 1, c-1)>> \o SplitComma(SubSeq(t, c+1, Len(t)))

\* html.escape(text)
EscapeChar(c) ==
  CASE c = "&" -> "&amp;"
    [] c = "<" -> "&lt;"
    [] c = ">" -> "&gt;"
    [] OTHER -> c

Escape(t) == [j \in 1..Len(t) |-> EscapeChar(t[j])]

UnescapeChar(c) ==
  CASE c = "&amp;" -> "&"
    [] c = "&lt;" -> "<"
    [] c = "&gt;" -> ">"
    [] OTHER -> c

\* ------------------------------------------------------------ the document
\* para.text of python-docx: the texts of the runs, concatenated
RECURSIVE ConcatRuns(_)
ConcatRuns(runs) ==
  IF runs = <<>> THEN <<>> ELSE Head(runs).text \o ConcatRuns(Tail(runs))

ParaText(p) == ConcatRuns(p.runs)

\* 'needle' in para.style.name.lower(), for the style names of the model
StyleHas(style, needle) ==
  CASE needle = "heading 1" -> style \in {"Heading 1", "heading 1 Char"}
    [] needle = "heading 2" -> style \in {"Heading 2"}
    [] needle = "heading 3" -> style \in {"Heading 3", "List Heading 3"}
    [] needle = "heading 4" -> style \in {"Heading 4"}
    [] needle = "list" -> style \in {"List Paragraph", "List Heading 3"}
    [] OTHER -> FALSE

\* ------------------------------------------------------- parse_doc_file
NoneValue == [isNone |-> TRUE]

IsNone(x) == x.isNone

\* script.py 108-116
InitialBlogData ==
  [isNone |-> FALSE, title |-> <<>>, tagline |-> <<>>, keywords |-> <<>>,
   content |-> <<>>, reading_time |-> 0]

\* KeywordsOf with the empty tokens filtered out
KeywordsOfDroppingEmpty(text) ==
  LET parts == SplitComma(Strip(Replace(text, KW)))
  IN SelectSeq([j \in 1..Len(parts) |-> Strip(parts[j])], LAMBDA x : x # <<>>)

\* script.py 138-140
KeywordsOf(text) ==
  LET parts == SplitComma(Strip(Replace(text, KW)))
  IN [j \in 1..Len(parts) |-> Strip(parts[j])]

\* script.py 130-142: every paragraph holding the marker overwrites keywords
RECURSIVE KeywordsLoop(_, _)
KeywordsLoop(paras, kws) ==
  IF paras = <<>> THEN kws
  ELSE KeywordsLoop(Tail(paras),
         IF Contains(ParaText(Head(paras)), KW)
         THEN KeywordsOf(ParaText(Head(paras)))
         ELSE kws)

\* script.py 251-263
ProcessRun(run) ==
  LET text == Escape(run.text)
  IN IF run.bold /\ run.italic
       THEN <<"<strong>", "<em>">> \o text \o <<"</em>", "</strong>">>
     ELSE IF run.bold THEN <<"<strong>">> \o text \o <<"</strong>">>
     ELSE IF run.italic THEN <<"<em>">> \o text \o <<"</em>">>
     ELSE text

RECURSIVE ProcessRuns(_)
ProcessRuns(runs) ==
  IF runs = <<>> THEN <<>> ELSE ProcessRun(Head(runs)) \o ProcessRuns(Tail(runs))

ProcessInlineFormatting(p) == ProcessRuns(p.runs)

\* script.py 194-202
ContentElement(p, para_text) ==
  IF StyleHas(p.style, "heading 3")
    THEN <<"<h3>">> \o Escape(para_text) \o <<"</h3>">>
  ELSE IF StyleHas(p.style, "heading 4")
    THEN <<"<h4>">> \o Escape(para_text) \o <<"</h4>">>
  ELSE IF StyleHas(p.style, "list")
    THEN <<"<li>">> \o ProcessInlineFormatting(p) \o <<"</li>">>
  ELSE <<"<p>">> \o ProcessInlineFormatting(p) \o <<"</p>">>

\* ScanParagraph with the 'Blog' marker skipped at any index, not only at 0
ScanParagraphBlogAnywhere(st, p, k) ==
  LET para_text == Strip(ParaText(p))
  IN IF para_text = <<>> THEN st
     ELSE IF Contains(para_text, BLOG) THEN st
     ELSE IF Contains(para_text, KW) THEN st
     ELSE IF ~st.title_found /\ ~st.tagline_found
       THEN IF StyleHas(p.style, "heading 1")
              THEN [st EXCEPT !.title = para_text, !.title_found = TRUE]
              ELSE st
     ELSE IF st.title_found /\ ~st.tagline_found
       THEN [st EXCEPT !.tagline = para_text, !.tagline_found = TRUE,
                       !.content_started = TRUE]
     ELSE IF st.content_started
       THEN [st EXCEPT !.content_paragraphs =
                          Append(@, ContentElement(p, para_text))]
     ELSE st

\* ScanParagraph without the fallback of lines 184-189: only a Heading 2
\* paragraph becomes the tagline
ScanParagraphTaglineNeedsHeading2(st, p, k) ==
  LET para_text == Strip(ParaText(p))
  IN IF para_text = <<>> THEN st
     ELSE IF k = 0 /\ Contains(para_text, BLOG) THEN st
     ELSE IF Contains(para_text, KW) THEN st
     ELSE IF ~st.title_found /\ ~st.tagline_found
       THEN IF StyleHas(p.style, "heading 1")
              THEN [st EXCEPT !.title = para_text, !.title_found = TRUE]
              ELSE st
     ELSE IF st.title_found /\ ~st.tagline_found
       THEN IF StyleHas(p.style, "heading 2")
              THEN [st EXCEPT !.tagline = para_text, !.tagline_found = TRUE,
                              !.content_started = TRUE]
              ELSE st
     ELSE IF st.content_started
       THEN [st EXCEPT !.content_paragraphs =
                          Append(@, ContentElement(p, para_text))]
     ELSE st

\* ScanParagraph with the test of line 176 reduced to `not tagline_found` and
\* reached by the paragraphs that are not the title
ScanParagraphTaglineBeforeTitle(st, p, k) ==
  LET para_text == Strip(ParaText(p))
  IN IF para_text = <<>> THEN st
     ELSE IF k = 0 /\ Contains(para_text, BLOG) THEN st
     ELSE IF Contains(para_text, KW) THEN st
     ELSE IF ~st.title_found /\ ~st.tagline_found
             /\ StyleHas(p.style, "heading 1")
       THEN [st EXCEPT !.title = para_text, !.title_found = TRUE]
     ELSE IF ~st.tagline_found
       THEN [st EXCEPT !.tagline = para_text, !.tagline_found = TRUE,
                       !.content_started = TRUE]
     ELSE IF st.content_started
       THEN [st EXCEPT !.content_paragraphs =
                          Append(@, ContentElement(p, para_text))]
     ELSE st

\* script.py 153-202: the body of the scan loop for paragraph p at index k
\* (k counts from 0, as enumerate does); st holds the locals of the loop
ScanParagraph(st, p, k) ==
  LET para_text == Strip(ParaText(p))
  IN IF para_text = <<>> THEN st
     ELSE IF k = 0 /\ Contains(para_text, BLOG) THEN st
     ELSE IF Contains(para_text, KW) THEN st
     ELSE IF ~st.title_found /\ ~st.tagline_found
       THEN IF StyleHas(p.style, "heading 1")
              THEN [st EXCEPT !.title = para_text, !.title_found = TRUE]
              ELSE st
     ELSE IF st.title_found /\ ~st.tagline_found
       THEN [st EXCEPT !.tagline = para_text, !.tagline_found = TRUE,
                       !.content_started = TRUE]
     ELSE IF st.content_started
       THEN [st EXCEPT !.content_paragraphs =
                          Append(@, ContentElement(p, para_text))]
     ELSE st

\* script.py 212-216
RECURSIVE FallbackTitle(_)
FallbackTitle(paras) ==
  IF paras = <<>> THEN <<>>
  ELSE LET text == ParaText(Head(paras))
       IN IF Strip(text) # <<>> /\ ~Contains(text, KW) /\ ~Contains(text, BLOG)
            THEN Strip(text)
            ELSE FallbackTitle(Tail(paras))

\* script.py 219: '\n'.join(content_paragraphs)
RECURSIVE JoinLines(_)
JoinLines(elems) ==
  IF elems = <<>> THEN <<>>
  ELSE IF Len(elems) = 1 THEN Head(elems)
  ELSE Head(elems) \o <<"\n">> \o JoinLines(Tail(elems))

\* ----------------------------------------------------------- the markup tree
OpenTags == {"<h3>", "<h4>", "<li>", "<p>", "<ul>", "<strong>", "<em>"}

CloseOf(tag) ==
  CASE tag = "<h3>" -> "</h3>"
    [] tag = "<h4>" -> "</h4>"
    [] tag = "<li>" -> "</li>"
    [] tag = "<p>" -> "</p>"
    [] tag = "<ul>" -> "</ul>"
    [] tag = "<strong>" -> "</strong>"
    [] tag = "<em>" -> "</em>"

CloseTags == {CloseOf(t) : t \in OpenTags}

IsTag(c) == c \in OpenTags \/ c \in CloseTags

TextNode(t) == [name |-> "#text", text |-> t, children |-> <<>>]

TagNode(tag, kids) == [name |-> tag, text |-> <<>>, children |-> kids]

\* BeautifulSoup(html, 'html.parser') on markup whose tags are well nested:
\* the siblings read from toks up to the closing tag `close` (or the end),
\* and the tokens left after it
RECURSIVE ParseUntil(_, _)
ParseUntil(toks, close) ==
  IF toks = <<>> THEN [nodes |-> <<>>, rest |-> <<>>]
  ELSE IF Head(toks) = close THEN [nodes |-> <<>>, rest |-> Tail(toks)]
  ELSE IF Head(toks) \in OpenTags
    THEN LET inner == ParseUntil(Tail(toks), CloseOf(Head(toks)))
             after == ParseUntil(inner.rest, close)
         IN [nodes |-> <<TagNode(Head(toks), inner.nodes)>> \o after.nodes,
             rest |-> after.rest]
  ELSE LET n == CHOOSE j \in 1..(Len(toks)+1) :
                  /\ (j = Len(toks)+1 \/ IsTag(toks[j]))
                  /\ \A k \in 1..(j-1) : ~IsTag(toks[k])
           run == SubSeq(toks, 1, n-1)
           after == ParseUntil(SubSeq(toks, n, Len(toks)), close)
       IN [nodes |-> <<TextNode([j \in 1..Len(run) |-> UnescapeChar(run[j])])>>
                       \o after.nodes,
           rest |-> after.rest]

BeautifulSoup(toks) == ParseUntil(toks, "").nodes

\* script.py 223-229.  Every <li> of the markup is a child of the root (the
\* text of a run is escaped), so find_all('li') is the <li> nodes of `nodes`
\* in order.  out is the root's children as rewritten so far, followed by the
\* nodes not yet visited; cur is the position in out of current_list (0 for
\* None).  Tag comparison in BeautifulSoup is structural, as = is here.
RECURSIVE WrapLoop(_, _, _)
WrapLoop(nodes, out, cur) ==
  IF nodes = <<>> THEN out
  ELSE LET n == Head(nodes)
       IN IF n.name # "<li>" THEN WrapLoop(Tail(nodes), Append(out, n), cur)
          ELSE IF cur = 0 \/ out = <<>> \/ out[Len(out)] # out[cur]
            THEN WrapLoop(Tail(nodes), Append(out, TagNode("<ul>", <<n>>)),
                          Len(out) + 1)
          ELSE WrapLoop(Tail(nodes),
                        [out EXCEPT ![cur].children = Append(@, n)], cur)

WrapListItems(nodes) == WrapLoop(nodes, <<>>, 0)

\* str(soup)
RECURSIVE SoupStr(_)
SoupStr(nodes) ==
  IF nodes = <<>> THEN <<>>
  ELSE LET n == Head(nodes)
       IN (IF n.name = "#text" THEN Escape(n.text)
           ELSE <<n.name>> \o SoupStr(n.children) \o <<CloseOf(n.name)>>)
          \o SoupStr(Tail(nodes))

\* soup.get_text()
RECURSIVE GetText(_)
GetText(nodes) ==
  IF nodes = <<>> THEN <<>>
  ELSE LET n == Head(nodes)
       IN (IF n.name = "#text" THEN n.text ELSE GetText(n.children))
          \o GetText(Tail(nodes))

\* len(re.findall(r'\w+', text)): a word starts at a word character that does
\* not follow one; the literal "Content Keywords:" starts like a word, holds a
\* second word and ends in ':'
WordChars == {"a", "b", BLOG}

CountWords(t) ==
  Cardinality({j \in 1..Len(t) :
                 /\ t[j] \in WordChars \cup {KW}
                 /\ (j = 1 \/ t[j-1] \notin WordChars)})
  + Cardinality({j \in 1..Len(t) : t[j] = KW})

\* Python's round(num / den) of non-negative integers: to the nearest
\* integer, a tie to the even one
PyRound(num, den) ==
  LET q == num \div den
      r == num % den
  IN IF 2 * r < den THEN q
     ELSE IF 2 * r > den THEN q + 1
     ELSE IF q % 2 = 0 THEN q ELSE q + 1

\* ReadingTimeOfWords with words // 225 in place of round(words / 225)
ReadingTimeOfWordsFloor(words) ==
  LET floored == words \div WordsPerMinute
  IN IF floored > 1 THEN floored ELSE 1

\* script.py 48
ReadingTimeOfWords(words) ==
  LET rounded == PyRound(words, WordsPerMinute)
  IN IF rounded > 1 THEN rounded ELSE 1

\* script.py 32-50
CalculateReadingTime(content) ==
  ReadingTimeOfWords(CountWords(GetText(BeautifulSoup(content))))

\* script.py 219-231
StructureContent(elems) == SoupStr(WrapListItems(BeautifulSoup(JoinLines(elems))))

\* UploadToStrapi without the check of the title (lines 276-278)
UploadToStrapiUnchecked(bd, outcome) ==
  [posted |-> TRUE,
   result |-> IF outcome \in {"200", "201"} THEN "json" ELSE "None"]

\* script.py 276-312.  outcome is what the POST does: the status code of the
\* response, or "error" when requests.post raises
UploadToStrapi(bd, outcome) ==
  IF bd.title = <<>> THEN [posted |-> FALSE, result |-> "None"]
  ELSE [posted |-> TRUE,
        result |-> IF outcome \in {"200", "201"} THEN "json" ELSE "None"]

Outcomes == {"200", "201", "500", "error"}

\* ------------------------------------------------------------------ inputs
Run(text) == [text |-> text, bold |-> FALSE, italic |-> FALSE]

Para(style, text) == [style |-> style, runs |-> <<Run(text)>>]

FmtPara(style, text, bold, italic) ==
  [style |-> style, runs |-> <<[text |-> text, bold |-> bold, italic |-> italic]>>]

SeqUpTo(S, n) == UNION {[1..k -> S] : k \in 0..n}

\* documents that exercise the scan: any order of styles and texts
GenStyles == {"Heading 1", "Heading 2", "Normal"}

GenTexts == {<<" ">>, <<"a">>, <<" ", "b">>, <<BLOG>>, <<KW, "a">>}

GenParas == {Para(s, t) : s \in GenStyles, t \in GenTexts}

GenDocs == SeqUpTo(GenParas, MaxParas)

\* documents with a title, a tagline and content paragraphs of every kind
ContentParas ==
  {Para(s, <<"a">>) : s \in {"Heading 3", "Heading 4", "List Paragraph",
                             "List Heading 3", "Normal"}}
  \cup {FmtPara("List Paragraph", <<"b">>, TRUE, FALSE),
        FmtPara("Normal", <<"b">>, FALSE, TRUE),
        FmtPara("Normal", <<"a", " ", "b">>, TRUE, TRUE)}

ContentDocs ==
  {<<Para("Heading 1", <<"a">>), Para("Heading 2", <<"b">>)>> \o s :
     s \in SeqUpTo(ContentParas, MaxContent)}

\* documents with keyword paragraphs
KwTails(n) == SeqUpTo({"a", "b", " ", ","}, n)

KwPara(tail) == Para("Normal", <<KW>> \o tail)

KwDocs ==
  {<<KwPara(t)>> : t \in KwTails(MaxKwLen)}
  \cup {<<KwPara(t), KwPara(u)>> : t \in KwTails(1), u \in KwTails(MaxKwLen)}

\* documents with n words of content
Words(n) == [j \in 1..(2 * n - 1) |-> IF j % 2 = 1 THEN "a" ELSE " "]

LongDocs ==
  {<<Para("Heading 1", <<"a">>), Para("Heading 2", <<"b">>),
     Para("Normal", Words(n))>> : n \in 0..MaxWords}

File(docx, readable, corrupt, paras) ==
  [docx |-> docx, readable |-> readable, corrupt |-> corrupt, paragraphs |-> paras]

RichFiles ==
  {File(TRUE, TRUE, FALSE, d) :
     d \in GenDocs \cup ContentDocs \cup KwDocs \cup LongDocs}

\* the files of a batch: a corrupt document, an upload that cannot be read, a
\* directory entry that is no .docx, and documents with and without a title
BatchFiles ==
  {File(TRUE, TRUE, TRUE, <<>>),
   File(TRUE, FALSE, FALSE, <<Para("Heading 1", <<"a">>)>>),
   File(FALSE, TRUE, FALSE, <<Para("Heading 1", <<"a">>)>>),
   File(TRUE, TRUE, FALSE, <<Para("Heading 1", <<"a">>)>>),
   File(TRUE, TRUE, FALSE, <<Para("Normal", <<" ", "b">>)>>),
   File(TRUE, TRUE, FALSE, <<KwPara(<<"a">>)>>)}

Batches == {<<f>> : f \in RichFiles} \cup SeqUpTo(BatchFiles, MaxFiles)

\* ------------------------------------------------------------------- state
VARIABLES
  mode,                \* "upload_docs" (main.py) or "process_directory"
  files,               \* the uploaded files, or the entries of the directory
  pc,                  \* position of the handler
  idx,                 \* number of files taken by the for loop
  tmpfiles,            \* temporary files that exist, named by the file's index
  results,             \* the results list
  posts,               \* titles of the POST requests issued so far
  blog_data,           \* parse_doc_file: the record, or NoneValue
  title_found, tagline_found, content_started, content_paragraphs,
  i                    \* parse_doc_file: index of the scan loop, from 0

vars == <<mode, files, pc, idx, tmpfiles, results, posts, blog_data,
          title_found, tagline_found, content_started, content_paragraphs, i>>

handlerVars == <<mode, files, idx, tmpfiles, results, posts>>

scanVars == <<title_found, tagline_found, content_started, content_paragraphs, i>>

Paragraphs == files[idx].paragraphs

ScanState ==
  [title |-> blog_data.title, tagline |-> blog_data.tagline,
   title_found |-> title_found, tagline_found |-> tagline_found,
   content_started |-> content_started,
   content_paragraphs |-> content_paragraphs]

Init ==
  /\ mode \in {"upload_docs", "process_directory"}
  /\ files \in Batches
  /\ pc = IF mode = "upload_docs" THEN "start" ELSE "loop"
  /\ idx = 0
  /\ tmpfiles = {}
  /\ results = <<>>
  /\ posts = <<>>
  /\ blog_data = NoneValue
  /\ title_found = FALSE
  /\ tagline_found = FALSE
  /\ content_started = FALSE
  /\ content_paragraphs = <<>>
  /\ i = 0

\* main.py 31-40, 49: the token is accepted, or HTTPException(401) is raised
VerifyAdminToken ==
  /\ pc = "start"
  /\ \E accepted \in BOOLEAN : pc' = IF accepted THEN "loop" ELSE "raised"
  /\ UNCHANGED <<handlerVars, blog_data, scanVars>>

\* main.py 55-59: the temporary file is created (delete=False), the upload is
\* read and written to it; an error in read or write leaves the with block
\* and the handler
CreateTemp ==
  /\ pc = "loop"
  /\ mode = "upload_docs"
  /\ idx < Len(files)
  /\ idx' = idx + 1
  /\ tmpfiles' = tmpfiles \cup {idx + 1}
  /\ pc' = IF files[idx + 1].readable THEN "parse" ELSE "raised"
  /\ UNCHANGED <<mode, files, results, posts, blog_data, scanVars>>

\* script.py 326-329
ListNext ==
  /\ pc = "loop"
  /\ mode = "process_directory"
  /\ idx < Len(files)
  /\ idx' = idx + 1
  /\ pc' = IF files[idx + 1].docx THEN "parse" ELSE "loop"
  /\ UNCHANGED <<mode, files, tmpfiles, results, posts, blog_data, scanVars>>

\* script.py 104-105, 245-249: Document(file_path) raises, None is returned
ParseOpenFail ==
  /\ pc = "parse"
  /\ files[idx].corrupt
  /\ blog_data' = NoneValue
  /\ pc' = "parsed"
  /\ UNCHANGED <<handlerVars, scanVars>>

\* script.py 105-151
ParseBegin ==
  /\ pc = "parse"
  /\ ~files[idx].corrupt
  /\ blog_data' = [InitialBlogData EXCEPT !.keywords = KeywordsLoop(Paragraphs, <<>>)]
  /\ title_found' = FALSE
  /\ tagline_found' = FALSE
  /\ content_started' = FALSE
  /\ content_paragraphs' = <<>>
  /\ i' = 0
  /\ pc' = "scan"
  /\ UNCHANGED handlerVars

\* script.py 153-202: one iteration of the scan loop
ScanStep ==
  /\ pc = "scan"
  /\ i < Len(Paragraphs)
  /\ LET st == ScanParagraph(ScanState, Paragraphs[i + 1], i)
     IN /\ blog_data' = [blog_data EXCEPT !.title = st.title, !.tagline = st.tagline]
        /\ title_found' = st.title_found
        /\ tagline_found' = st.tagline_found
        /\ content_started' = st.content_started
        /\ content_paragraphs' = st.content_paragraphs
  /\ i' = i + 1
  /\ UNCHANGED <<pc, handlerVars>>

\* script.py 204-243
ParseFinish ==
  /\ pc = "scan"
  /\ i = Len(Paragraphs)
  /\ LET title == IF title_found THEN blog_data.title ELSE FallbackTitle(Paragraphs)
         content == StructureContent(content_paragraphs)
     IN blog_data' = [blog_data EXCEPT !.title = title, !.content = content,
                                       !.reading_time = CalculateReadingTime(content)]
  /\ pc' = "parsed"
  /\ UNCHANGED <<handlerVars, scanVars>>

\* main.py 62-64 and script.py 332-340
Upload ==
  /\ pc = "parsed"
  /\ ~IsNone(blog_data)
  /\ \E outcome \in Outcomes :
       LET up == UploadToStrapi(blog_data, outcome)
       IN /\ posts' = IF up.posted THEN Append(posts, blog_data.title) ELSE posts
          /\ results' =
               IF mode = "upload_docs" THEN Append(results, [response |-> up.result])
               ELSE Append(results, [filename |-> idx, title |-> blog_data.title,
                                     success |-> up.result # "None",
                                     response |-> up.result])
  /\ pc' = IF mode = "upload_docs" THEN "remove" ELSE "loop"
  /\ UNCHANGED <<mode, files, idx, tmpfiles, blog_data, scanVars>>

\* main.py 62 (nothing is appended) and script.py 341-348
ParseFailed ==
  /\ pc = "parsed"
  /\ IsNone(blog_data)
  /\ results' =
       IF mode = "upload_docs" THEN results
       ELSE Append(results, [filename |-> idx, title |-> <<"Failed to parse">>,
                             success |-> FALSE, response |-> "None"])
  /\ pc' = IF mode = "upload_docs" THEN "remove" ELSE "loop"
  /\ UNCHANGED <<mode, files, idx, tmpfiles, posts, blog_data, scanVars>>

\* main.py 66
RemoveTemp ==
  /\ pc = "remove"
  /\ tmpfiles' = tmpfiles \ {idx}
  /\ pc' = "loop"
  /\ UNCHANGED <<mode, files, idx, results, posts, blog_data, scanVars>>

\* main.py 68 and script.py 350
Return ==
  /\ pc = "loop"
  /\ idx = Len(files)
  /\ pc' = "done"
  /\ UNCHANGED <<handlerVars, blog_data, scanVars>>

Next ==
  \/ VerifyAdminToken
  \/ CreateTemp
  \/ ListNext
  \/ ParseOpenFail
  \/ ParseBegin
  \/ ScanStep
  \/ ParseFinish
  \/ Upload
  \/ ParseFailed
  \/ RemoveTemp
  \/ Return

Spec == Init /\ [][Next]_vars

\* ------------------------------------------------------------ the claims
MinOf(S) == CHOOSE x \in S : \A y \in S : x <= y

MaxOf(S) == CHOOSE x \in S : \A y \in S : y <= x

\* the k-th smallest element of a set of numbers
Nth(S, k) == CHOOSE x \in S : Cardinality({y \in S : y < x}) = k - 1

\* parse_doc_file has returned a record for the current file
Parsed == pc = "parsed" /\ ~IsNone(blog_data)

Trimmed(k) == Strip(ParaText(Paragraphs[k]))

H1Indices ==
  {k \in 1..Len(Paragraphs) : StyleHas(Paragraphs[k].style, "heading 1")}

\* paragraphs the scan passes over: empty after trimming, the 'Blog' marker in
\* first place, the keywords paragraph
Filtered(k) ==
  \/ Trimmed(k) = <<>>
  \/ k = 1 /\ Contains(Trimmed(k), BLOG)
  \/ Contains(Trimmed(k), KW)

EligibleH1 == {k \in H1Indices : ~Filtered(k)}

\* the paragraphs after the title that are neither empty nor the keywords
AfterTitle ==
  IF EligibleH1 = {} THEN {}
  ELSE {k \in (MinOf(EligibleH1) + 1)..Len(Paragraphs) : ~Filtered(k)}

\* C1 as stated: when some paragraph is styled Heading 1, the title is the
\* text of the first paragraph styled Heading 1.
C1_TitleIsFirstHeading1 ==
  (Parsed /\ H1Indices # {})
    => blog_data.title = ParaText(Paragraphs[MinOf(H1Indices)])

\* C1 as amended: when some paragraph styled Heading 1 is not passed over by
\* the scan (it is not empty after trimming, not the 'Blog' marker in first
\* place, not the keywords paragraph), the title is the trimmed text of the
\* first such paragraph.
C1_TitleIsFirstEligibleHeading1 ==
  (Parsed /\ EligibleH1 # {}) => blog_data.title = Trimmed(MinOf(EligibleH1))

\* a Heading 1 paragraph was passed over, and two more could be the title
C1_Witness ==
  /\ Parsed
  /\ Cardinality(EligibleH1) >= 2
  /\ MinOf(H1Indices) \notin EligibleH1
  /\ Trimmed(MinOf(EligibleH1)) # Trimmed(MaxOf(EligibleH1))

\* C2: when every content paragraph is a list item (n >= 1 of them), the
\* content holds exactly one <ul>, which wraps all n <li> elements.
C2_OneListWrapsAllItems ==
  (/\ Parsed
   /\ content_paragraphs # <<>>
   /\ \A j \in 1..Len(content_paragraphs) : Head(content_paragraphs[j]) = "<li>")
    => LET c == blog_data.content
       IN /\ Cardinality({j \in 1..Len(c) : c[j] = "<ul>"}) = 1
          /\ Cardinality({j \in 1..Len(c) : c[j] = "<li>"}) = Len(content_paragraphs)
          /\ c[1] = "<ul>"
          /\ c[Len(c)] = "</ul>"

\* C3: when the /upload handler has ended, by return or by exception, no
\* temporary file it created exists, and at no time do two of them exist.
C3_TempFilesRemoved ==
  /\ pc \in {"done", "raised"} => tmpfiles = {}
  /\ Cardinality(tmpfiles) <= 1

\* C4: every POST carries a non-empty title, and a record with an empty title
\* gets the result None without a POST.
C4_NoPostWithEmptyTitle ==
  /\ [](\A j \in 1..Len(posts) : posts[j] # <<>>)
  /\ [][(Parsed /\ blog_data.title = <<>>)
          => /\ posts' = posts
             /\ Len(results') = Len(results) + 1
             /\ results'[Len(results')].response = "None"]_vars

\* a batch has ended in which one record was posted and another, with an empty
\* title, was not
C4_Witness ==
  /\ pc = "done"
  /\ mode = "upload_docs"
  /\ Len(posts) >= 1
  /\ Len(results) > Len(posts)

\* C5: a batch that has ended holds exactly one result entry per input
\* document (per .docx entry of the directory, per uploaded file).
C5_OneResultPerDocument ==
  pc = "done"
    => Len(results) =
         Cardinality({k \in 1..Len(files) : mode = "upload_docs" \/ files[k].docx})

\* the paragraphs that are not empty, not the keywords paragraph and not the
\* 'Blog' marker in first place
C6_FallbackCandidates ==
  {k \in 1..Len(Paragraphs) :
     /\ Trimmed(k) # <<>>
     /\ ~Contains(ParaText(Paragraphs[k]), KW)
     /\ ~(k = 1 /\ Contains(ParaText(Paragraphs[k]), BLOG))}

\* C6: when no paragraph is styled Heading 1, the title is the (trimmed) text
\* of the first paragraph that is not empty, not the keywords paragraph and
\* not the 'Blog' marker in first place, and empty when there is none.
C6_FallbackTitle ==
  (Parsed /\ H1Indices = {})
    => blog_data.title =
         IF C6_FallbackCandidates = {} THEN <<>>
         ELSE Trimmed(MinOf(C6_FallbackCandidates))

\* the record returned after the scan found a title: tagline and content
C7_AtReturn ==
  (Parsed /\ EligibleH1 # {})
    => IF AfterTitle = {}
         THEN blog_data.tagline = <<>> /\ content_paragraphs = <<>>
         ELSE /\ blog_data.tagline = Trimmed(MinOf(AfterTitle))
              /\ Len(content_paragraphs) = Cardinality(AfterTitle) - 1
              /\ \A j \in 1..Len(content_paragraphs) :
                   LET k == Nth(AfterTitle, j + 1)
                   IN content_paragraphs[j] = ContentElement(Paragraphs[k], Trimmed(k))

\* C7: once the scan has found the title, the next paragraph that is not empty
\* and not the keywords paragraph is the tagline, whatever its style; the
\* tagline is not overwritten, and every later such paragraph is a content
\* element, in order.
C7_TaglineThenContent ==
  /\ []C7_AtReturn
  /\ [][(pc = "scan" /\ tagline_found)
          => blog_data'.tagline = blog_data.tagline]_vars

\* the tagline is a paragraph that is not styled Heading 2, and a Heading 2
\* paragraph after it is content
C7_Witness ==
  /\ Parsed
  /\ Cardinality(AfterTitle) >= 2
  /\ ~StyleHas(Paragraphs[MinOf(AfterTitle)].style, "heading 2")
  /\ StyleHas(Paragraphs[Nth(AfterTitle, 2)].style, "heading 2")
  /\ Len(content_paragraphs) = 1

\* the keyword paragraphs: all that hold the marker, and those of the form
\* 'Content Keywords: t1, ..., tn'
KwIndices ==
  {k \in 1..Len(Paragraphs) : Contains(ParaText(Paragraphs[k]), KW)}

KwFormed ==
  {k \in KwIndices : /\ Head(ParaText(Paragraphs[k])) = KW
                     /\ ~Contains(Tail(ParaText(Paragraphs[k])), KW)}

\* the comma-separated tokens of a text, each trimmed, empty ones kept
CommasOf(t) == {j \in 1..Len(t) : t[j] = ","}

TokensOf(t) ==
  [j \in 1..(Cardinality(CommasOf(t)) + 1) |->
     LET lo == IF j = 1 THEN 0 ELSE Nth(CommasOf(t), j - 1)
         hi == IF j = Cardinality(CommasOf(t)) + 1 THEN Len(t) + 1
               ELSE Nth(CommasOf(t), j)
     IN Strip(SubSeq(t, lo + 1, hi - 1))]

\* C8 as stated: the keywords are the tokens of a paragraph
\* 'Content Keywords: t1, ..., tn' of the document.
C8_KeywordsOfAnyParagraph ==
  Parsed => \A k \in KwFormed :
              blog_data.keywords = TokensOf(Tail(ParaText(Paragraphs[k])))

\* C8 as amended: the keywords are the tokens of the last paragraph that holds
\* the marker, when that paragraph is 'Content Keywords: t1, ..., tn'.
C8_KeywordsOfLastParagraph ==
  (Parsed /\ KwIndices # {} /\ MaxOf(KwIndices) \in KwFormed)
    => blog_data.keywords = TokensOf(Tail(ParaText(Paragraphs[MaxOf(KwIndices)])))

\* two keyword paragraphs, the last one 'a, , b' with an empty token
C8_Witness ==
  /\ Parsed
  /\ Cardinality(KwIndices) = 2
  /\ blog_data.keywords = << <<"a">>, <<>>, <<"b">> >>

\* the words of the content, counted on the paragraphs of the document
RECURSIVE WordsOfParagraphs(_)
WordsOfParagraphs(S) ==
  IF S = {} THEN 0
  ELSE LET k == MinOf(S)
       IN CountWords(ParaText(Paragraphs[k])) + WordsOfParagraphs(S \ {k})

ContentWords ==
  IF AfterTitle = {} THEN 0 ELSE WordsOfParagraphs(AfterTitle \ {MinOf(AfterTitle)})

\* C9: a returned record has reading_time >= 1, and reading_time is w / 225
\* rounded to the nearest integer, or 1 when that is less (w the words of the
\* content).
C9_ReadingTime ==
  Parsed
    => LET rt == blog_data.reading_time
           w == ContentWords
       IN /\ rt >= 1
          /\ IF 2 * w < 225 THEN rt = 1
             ELSE /\ 2 * (225 * rt - w) <= 225
                  /\ 2 * (w - 225 * rt) <= 225

\* 338 words: 338 / 225 is just above 1.5 and rounds up to 2
C9_Witness == Parsed /\ ContentWords = 338 /\ blog_data.reading_time = 2

\* the flags of the scan in every state, and the record returned when the
\* scan found no title
C10_FlagsInvariant ==
  /\ tagline_found => title_found
  /\ content_started = tagline_found
  /\ ~tagline_found => content_paragraphs = <<>>
  /\ (Parsed /\ ~title_found)
       => blog_data.tagline = <<>> /\ blog_data.content = <<>>

\* C10: during the scan the flags only go from false to true, tagline_found
\* implies title_found, content_started equals tagline_found, content is
\* appended only when tagline_found holds; a record whose title the scan did
\* not find has an empty tagline and empty content.
C10_ScanFlags ==
  /\ []C10_FlagsInvariant
  /\ [][pc = "scan"
          => /\ title_found => title_found'
             /\ tagline_found => tagline_found'
             /\ content_started => content_started'
             /\ content_paragraphs' # content_paragraphs => tagline_found]_vars

\* the fallback gave a title to a document with three paragraphs to read, of
\* which none became tagline or content
C10_Witness ==
  /\ Parsed
  /\ ~title_found
  /\ blog_data.title # <<>>
  /\ Cardinality({k \in 1..Len(Paragraphs) : ~Filtered(k)}) >= 3

====
